---- MODULE Spec2Model ----
(***************************************************************************)
(* foonathan::memory temporary_allocator: a scoped handle over a          *)
(* thread-local growable bump arena (memory_stack<>), with the            *)
(* allocator_traits<temporary_allocator> adapter of                       *)
(* temporary_allocator.hpp.                                                *)
(*                                                                         *)
(* The header declares the handle and defines the adapter inline.  The     *)
(* arena (stack_allocator.hpp), the bodies of the handle's special         *)
(* members, of allocate and of max_node_size are not part of the header;   *)
(* they are modelled from the design document (sections 3 and 4).          *)
(***************************************************************************)
EXTENDS Integers, Sequences, FiniteSets, TLC

\* ---------------------------------------------------------------- bounds
\* number of threads that have an arena
NThreads == 2
\* blocks the backing allocator can supply to one arena
MaxBlocks == 3
\* handles ever constructed (factory and move construction)
MaxHandles == 3
\* handles ever constructed by a program that goes through allocator_traits
MaxTraitsHandles == 2
\* allocations tracked at a time
MaxAllocs == 2
\* allocations tracked at a time by a program that goes through allocator_traits
MaxTraitsAllocs == 2
\* allocations tracked at a time while handles are moved
MaxMoveAllocs == 1
\* handles ever constructed by a program of several threads
MaxThreadsHandles == 2
\* allocations tracked at a time in a program of several threads
MaxThreadsAllocs == 3
\* width of std::size_t in the model, in bits
SizeBits == 4
\* the strictest alignment requested is 2 ^ AlignBits
AlignBits == 2

\* ----------------------------------------------------- arena configuration
InitialBlockSize == 2
GrowthFactor == 2
GrowthCeiling == 5

SizeMod == 2 ^ SizeBits

Threads == 1 .. NThreads
\* the thread that runs in the single-threaded specification
MainThread == 1

\* request parameters exercised by the model
Sizes == {0, 1, GrowthCeiling, GrowthCeiling + 1}
Alignments == {2 ^ k : k \in 0 .. AlignBits} \cup {3}
Counts == {2, SizeMod \div 2}
ElemSizes == {1, 2}

Max(a, b) == IF a >= b THEN a ELSE b

RECURSIVE Pow(_, _)
Pow(b, e) == IF e = 0 THEN 1 ELSE b * Pow(b, e - 1)

\* no block is ever larger than this: each acquisition is sized
\* max(size, capacity * GrowthFactor) with size <= GrowthCeiling
MaxCapacity == Max(InitialBlockSize, GrowthCeiling) * Pow(GrowthFactor, MaxBlocks)

\* the strictest alignment the model requests
MaxAlignment == 2 ^ AlignBits

\* distance between the base addresses of two blocks; a multiple of
\* MaxAlignment, so each block's memory is maximally aligned
Stride == MaxAlignment * ((MaxCapacity + MaxAlignment - 1) \div MaxAlignment)

VARIABLES
    blocks,      \* blocks[t]: the block chain of thread t's arena
    cur,         \* cur[t]: index of the current block of thread t's arena
    handles,     \* every temporary_allocator ever constructed, by identity
    allocs,      \* history: every successful allocation, oldest first
    last,        \* history: the operation the program performed last
    ret,         \* what the last call of allocate returned
    pending,     \* history: the captured markers not yet rolled back to
    aborted,     \* an assert() failed in a build with assertions
    lifoBroken,  \* history: some rollback ran out of LIFO order
    reclaimed,   \* history: the first allocation of the handle destroyed last,
                 \* kept until the first allocation of a handle made after it
    actor        \* history: the thread that performed the last operation

vars == <<blocks, cur, handles, allocs, last, ret, pending, aborted, lifoBroken,
         reclaimed, actor>>

\* ------------------------------------------------------------------ Block
Block(capacity) == [capacity |-> capacity, cursor |-> 0]

\* base address of block i of thread t's arena (never 0)
BlockBase(t, i) == ((t - 1) * (MaxBlocks + 1) + i) * Stride

Address(t, blk, off) == BlockBase(t, blk) + off

IsPowerOfTwo(a) == \E k \in 0 .. SizeBits : a = 2 ^ k

\* bytes to skip so that address becomes a multiple of alignment
align_offset(address, alignment) == (alignment - (address % alignment)) % alignment

\* room in block b (block index i of thread t) for size bytes at alignment
HasRoom(t, i, b, size, alignment) ==
    align_offset(Address(t, i, b.cursor), alignment) + size <= b.capacity - b.cursor

\* ------------------------------------------------------------------ Arena
Marker(blk, cursor) == [block |-> blk, cursor |-> cursor]

\* Arena.marker(): current block identity and cursor
top(t) == Marker(cur[t], blocks[t][cur[t]].cursor)

\* Arena.capacity_remaining(): bytes left in the current block only
capacity_remaining(t) == blocks[t][cur[t]].capacity - blocks[t][cur[t]].cursor

\* the backing allocator's acquire_block(min_size)
CanAcquire(t) == Len(blocks[t]) < MaxBlocks

\* bump the cursor of block i of chain bs
Carve(t, bs, i, size, alignment) ==
    LET b == bs[i]
        off == b.cursor + align_offset(Address(t, i, b.cursor), alignment)
    IN  [status |-> "ok", blk |-> i, off |-> off,
         blocks |-> [bs EXCEPT ![i].cursor = off + size], cur |-> i]

\* Arena.allocate(size, alignment), as a function of the arena
stack_allocate(t, size, alignment) ==
    LET bs == blocks[t]
        c == cur[t]
        fail(why) == [status |-> why, blk |-> 0, off |-> 0, blocks |-> bs, cur |-> c]
    IN  IF ~IsPowerOfTwo(alignment) THEN fail("InvalidArgument")
        ELSE IF HasRoom(t, c, bs[c], size, alignment)
            THEN Carve(t, bs, c, size, alignment)
        ELSE IF c < Len(bs) /\ HasRoom(t, c + 1, bs[c + 1], size, alignment)
            THEN Carve(t, bs, c + 1, size, alignment)
        ELSE IF size > GrowthCeiling \/ ~CanAcquire(t) THEN fail("OutOfMemory")
        ELSE Carve(t, Append(bs, Block(Max(size, bs[c].capacity * GrowthFactor))),
                   Len(bs) + 1, size, alignment)

\* Arena.unwind(marker), as the new chain
unwind(t, m) ==
    [i \in 1 .. Len(blocks[t]) |->
        IF i = m.block THEN [blocks[t][i] EXCEPT !.cursor = m.cursor]
        ELSE IF i > m.block THEN [blocks[t][i] EXCEPT !.cursor = 0]
        ELSE blocks[t][i]]

\* ----------------------------------------------------------- Scoped handle
Live(h) == h \in 1 .. Len(handles) /\ handles[h].state = "live"

LiveHandles(t) == {h \in 1 .. Len(handles) : Live(h) /\ handles[h].thr = t}

NoMarker == Marker(0, 0)

\* m1 is no later than m2 in the arena's allocation history
MarkerLE(m1, m2) ==
    m1.block < m2.block \/ (m1.block = m2.block /\ m1.cursor <= m2.cursor)

\* temporary_allocator::temporary_allocator(): captures the arena's frontier.
\* cap and born are history: the identity of the captured marker (the
\* number of the handle the factory made for it) and the frontier when the
\* marker was captured.
temporary_allocator(t) ==
    [thr |-> t, state |-> "live", marker_ |-> top(t), unwind_ |-> TRUE,
     cap |-> Len(handles) + 1, born |-> top(t)]

\* what is left of a handle after its destructor
Destroyed(t) ==
    [thr |-> t, state |-> "dead", marker_ |-> NoMarker, unwind_ |-> FALSE,
     cap |-> 0, born |-> NoMarker]

\* the factory returning a handle whose marker is the start of the arena
make_temporary_allocator_at_start(t) ==
    /\ handles' = Append(handles, [thr |-> t, state |-> "live",
                                   marker_ |-> Marker(1, 0), unwind_ |-> TRUE,
                                   cap |-> Len(handles) + 1, born |-> top(t)])
    /\ pending' = pending \cup {Len(handles) + 1}
    /\ UNCHANGED <<blocks, cur, allocs, lifoBroken>>

\* the factory returning a handle whose marker lies past the end of the
\* current block
make_temporary_allocator_past_end(t) ==
    /\ handles' = Append(handles,
                         [thr |-> t, state |-> "live",
                          marker_ |-> Marker(cur[t], blocks[t][cur[t]].capacity + 1),
                          unwind_ |-> TRUE,
                          cap |-> Len(handles) + 1, born |-> top(t)])
    /\ pending' = pending \cup {Len(handles) + 1}
    /\ UNCHANGED <<blocks, cur, allocs, lifoBroken>>

\* the factory returning a handle bound to the main thread's arena,
\* whichever thread calls it
make_temporary_allocator_shared(t) ==
    /\ handles' = Append(handles, temporary_allocator(MainThread))
    /\ pending' = pending \cup {Len(handles) + 1}
    /\ UNCHANGED <<blocks, cur, allocs, lifoBroken>>

\* make_temporary_allocator(): return {};
make_temporary_allocator(t) ==
    /\ handles' = Append(handles, temporary_allocator(t))
    /\ pending' = pending \cup {Len(handles) + 1}
    /\ UNCHANGED <<blocks, cur, allocs, lifoBroken>>

\* temporary_allocator(temporary_allocator &&other): the marker and the
\* rollback obligation move to the new handle, other becomes inert
move_construct(other) ==
    LET o == handles[other]
    IN  /\ handles' = Append([handles EXCEPT ![other].unwind_ = FALSE], o)
        /\ UNCHANGED <<blocks, cur, allocs, pending, lifoBroken>>

\* operator=(temporary_allocator &&other)
move_assign(self, other) ==
    LET o == handles[other]
    IN  /\ handles' = [handles EXCEPT
               ![self].marker_ = o.marker_,
               ![self].unwind_ = o.unwind_,
               ![self].cap = o.cap,
               ![self].born = o.born,
               ![other].unwind_ = FALSE]
        /\ UNCHANGED <<blocks, cur, allocs, pending, lifoBroken>>

\* history kept per allocation when handle h is destroyed:
\*   live     no marker captured before it was made has been rolled back to
AfterDestroy(h, a) ==
    LET g == handles[h]
    IN  [a EXCEPT !.live = @ /\ ~(g.unwind_ /\ a.thr = g.thr /\ g.cap <= a.seen)]

\* the history forgets an allocation once it is rolled back and the handle
\* that made it is gone
Tracked(as, h) == SelectSeq(as, LAMBDA a : a.live \/ a.h # h)

\* ~temporary_allocator(): if (unwind_) arena.unwind(marker_)
destroy(h) ==
    LET g == handles[h]
        t == g.thr
    IN  /\ IF g.unwind_
             THEN /\ blocks' = [blocks EXCEPT ![t] = unwind(t, g.marker_)]
                  /\ cur' = [cur EXCEPT ![t] = g.marker_.block]
                  /\ pending' = pending \ {g.cap}
                  /\ lifoBroken' = (lifoBroken \/
                        \E k \in LiveHandles(t) :
                            k # h /\ handles[k].unwind_ /\ handles[k].cap > g.cap)
             ELSE UNCHANGED <<blocks, cur, pending, lifoBroken>>
        /\ handles' = [handles EXCEPT ![h] = Destroyed(t)]
        /\ allocs' = Tracked([i \in 1 .. Len(allocs) |-> AfterDestroy(h, allocs[i])], h)

\* history: the allocation that handle h has just been given
AllocRecord(h, r, size) ==
    LET t == handles[h].thr
    IN  [h |-> h, thr |-> t, blk |-> r.blk, off |-> r.off, size |-> size,
         seen |-> Len(handles),
         inner |-> /\ handles[h].unwind_
                   /\ \A k \in LiveHandles(t) :
                         handles[k].unwind_ => handles[k].cap <= handles[h].cap,
         live |-> TRUE]

\* what allocate returns: a pointer into a block, or an error
Ret(status, blk, off) == [status |-> status, blk |-> blk, off |-> off]

NoRet == Ret("none", 0, 0)

\* temporary_allocator::allocate(size, alignment): forwards to the arena
allocate(h, size, alignment) ==
    LET t == handles[h].thr
        r == stack_allocate(t, size, alignment)
    IN  /\ blocks' = [blocks EXCEPT ![t] = r.blocks]
        /\ cur' = [cur EXCEPT ![t] = r.cur]
        /\ ret' = Ret(r.status, r.blk, r.off)
        /\ allocs' = IF r.status = "ok"
                       THEN Append(allocs, AllocRecord(h, r, size))
                       ELSE allocs
        /\ UNCHANGED <<handles, pending, lifoBroken>>

\* ----------------------------------- allocator_traits<temporary_allocator>
\* max_node_size(state): the arena's capacity_remaining()
max_node_size(h) == capacity_remaining(handles[h].thr)

\* max_array_size(state)
max_array_size(h) == max_node_size(h)

\* max_alignment(state): std::size_t(-1)
max_alignment(h) == SizeMod - 1

\* allocate_node forwarding its arguments in the wrong order
allocate_node_swapped(h, size, alignment) ==
    allocate(h, alignment, size) /\ UNCHANGED aborted

\* allocate_node rolling the arena back to the handle's marker before it
\* reports OutOfMemory
allocate_node_unwinding(h, size, alignment) ==
    LET t == handles[h].thr
    IN  IF stack_allocate(t, size, alignment).status = "OutOfMemory"
          THEN /\ blocks' = [blocks EXCEPT ![t] = unwind(t, handles[h].marker_)]
               /\ cur' = [cur EXCEPT ![t] = handles[h].marker_.block]
               /\ ret' = Ret("OutOfMemory", 0, 0)
               /\ UNCHANGED <<handles, allocs, pending, lifoBroken, aborted>>
          ELSE allocate(h, size, alignment) /\ UNCHANGED aborted

\* allocate_node(state, size, alignment): the assert ends the program in a
\* build with assertions and is compiled out under NDEBUG
allocate_node(h, size, alignment) ==
    IF size <= max_node_size(h)
      THEN allocate(h, size, alignment) /\ UNCHANGED aborted
      ELSE \/ /\ aborted' = TRUE
              /\ ret' = NoRet
              /\ UNCHANGED <<blocks, cur, handles, allocs, pending, lifoBroken>>
           \/ allocate(h, size, alignment) /\ UNCHANGED aborted

\* allocate_array(state, count, size, alignment): count * size in std::size_t
allocate_array(h, count, size, alignment) ==
    allocate_node(h, (count * size) % SizeMod, alignment)

\* deallocate_node giving the bytes back when ptr is the allocation on top
deallocate_node_rewinds(h, ptr, size, alignment) ==
    /\ blocks' = [blocks EXCEPT ![allocs[ptr].thr][allocs[ptr].blk].cursor =
                      IF @ = allocs[ptr].off + size THEN allocs[ptr].off ELSE @]
    /\ UNCHANGED <<cur, handles, allocs, pending, lifoBroken>>

\* deallocate_node(state, ptr, size, alignment)
deallocate_node(h, ptr, size, alignment) ==
    UNCHANGED <<blocks, cur, handles, allocs, pending, lifoBroken>>

\* deallocate_array(state, ptr, count, size, alignment)
deallocate_array(h, ptr, count, size, alignment) ==
    UNCHANGED <<blocks, cur, handles, allocs, pending, lifoBroken>>

\* history: nothing was reclaimed by the last operations
NoReclaim == [born |-> NoMarker, blk |-> 0, off |-> 0, size |-> 0]

\* history: the frontier handle h captured and the first allocation made
\* through h, when h is about to roll the arena back
Reclaimed(h) ==
    LET own == {i \in 1 .. Len(allocs) : allocs[i].h = h}
        first == allocs[CHOOSE i \in own : \A j \in own : i <= j]
    IN  IF handles[h].unwind_ /\ own # {}
          THEN [born |-> handles[h].born, blk |-> first.blk, off |-> first.off,
                size |-> first.size]
          ELSE NoReclaim

\* ------------------------------------------------------------ the program
Init ==
    /\ blocks = [t \in Threads |-> <<Block(InitialBlockSize)>>]
    /\ cur = [t \in Threads |-> 1]
    /\ handles = <<>>
    /\ allocs = <<>>
    /\ last = "init"
    /\ ret = NoRet
    /\ pending = {}
    /\ aborted = FALSE
    /\ lifoBroken = FALSE
    /\ reclaimed = NoReclaim
    /\ actor = MainThread

Make(t, n) ==
    /\ ~aborted
    /\ Len(handles) < n
    /\ make_temporary_allocator(t)
    /\ last' = "make"
    /\ ret' = NoRet
    /\ UNCHANGED aborted
    /\ reclaimed' = IF last \in {"destroy", "make"} THEN reclaimed ELSE NoReclaim
    /\ actor' = t

MoveConstruct(t, n) ==
    /\ ~aborted
    /\ Len(handles) < n
    /\ \E other \in LiveHandles(t) :
          /\ move_construct(other)
          /\ last' = "move_construct"
    /\ ret' = NoRet
    /\ UNCHANGED aborted
    /\ reclaimed' = NoReclaim
    /\ actor' = t

MoveAssign(t) ==
    /\ ~aborted
    /\ \E self \in LiveHandles(t), other \in LiveHandles(t) :
          /\ self # other
          /\ move_assign(self, other)
          /\ last' = "move_assign"
    /\ ret' = NoRet
    /\ UNCHANGED aborted
    /\ reclaimed' = NoReclaim
    /\ actor' = t

Destroy(t) ==
    /\ ~aborted
    /\ \E h \in LiveHandles(t) :
          /\ destroy(h)
          /\ reclaimed' = Reclaimed(h)
          /\ last' = "destroy"
    /\ ret' = NoRet
    /\ UNCHANGED aborted
    /\ actor' = t

Allocate(t, n) ==
    /\ ~aborted
    /\ Len(allocs) < n
    /\ \E h \in LiveHandles(t), size \in Sizes, alignment \in Alignments :
          allocate(h, size, alignment)
    /\ last' = "allocate"
    /\ UNCHANGED aborted
    /\ reclaimed' = IF last = "make" THEN reclaimed ELSE NoReclaim
    /\ actor' = t

AllocateNode(t, n) ==
    /\ ~aborted
    /\ Len(allocs) < n
    /\ \E h \in LiveHandles(t), size \in Sizes, alignment \in Alignments :
          allocate_node(h, size, alignment)
    /\ last' = "allocate_node"
    /\ reclaimed' = NoReclaim
    /\ actor' = t

AllocateArray(t, n) ==
    /\ ~aborted
    /\ Len(allocs) < n
    /\ \E h \in LiveHandles(t), count \in Counts, size \in ElemSizes,
          alignment \in Alignments :
          allocate_array(h, count, size, alignment)
    /\ last' = "allocate_array"
    /\ reclaimed' = NoReclaim
    /\ actor' = t

DeallocateNode(t) ==
    /\ ~aborted
    /\ \E h \in LiveHandles(t), i \in 1 .. Len(allocs) :
          deallocate_node(h, i, allocs[i].size, 1)
    /\ last' = "deallocate"
    /\ ret' = NoRet
    /\ UNCHANGED aborted
    /\ reclaimed' = NoReclaim
    /\ actor' = t

DeallocateArray(t) ==
    /\ ~aborted
    /\ \E h \in LiveHandles(t), i \in 1 .. Len(allocs) :
          deallocate_array(h, i, 1, allocs[i].size, 1)
    /\ last' = "deallocate"
    /\ ret' = NoRet
    /\ UNCHANGED aborted
    /\ reclaimed' = NoReclaim
    /\ actor' = t

\* one thread whose handles are scope-local variables: created by the
\* factory, allocated from, destroyed
Next ==
    \/ Make(MainThread, MaxHandles)
    \/ Destroy(MainThread)
    \/ Allocate(MainThread, MaxAllocs)

Spec == Init /\ [][Next]_vars

\* one thread that also uses its handles through allocator_traits
NextTraits ==
    \/ Make(MainThread, MaxTraitsHandles)
    \/ Destroy(MainThread)
    \/ Allocate(MainThread, MaxTraitsAllocs)
    \/ AllocateNode(MainThread, MaxTraitsAllocs)
    \/ AllocateArray(MainThread, MaxTraitsAllocs)
    \/ DeallocateNode(MainThread)
    \/ DeallocateArray(MainThread)

SpecTraits == Init /\ [][NextTraits]_vars

\* one thread whose handles are also move constructed and move assigned
NextMove ==
    \/ Make(MainThread, MaxHandles)
    \/ MoveConstruct(MainThread, MaxHandles)
    \/ MoveAssign(MainThread)
    \/ Destroy(MainThread)
    \/ Allocate(MainThread, MaxMoveAllocs)

SpecMove == Init /\ [][NextMove]_vars

\* several threads, each with the arena of its own thread_local storage;
\* the arenas share nothing, so the threads interleave operation by operation
NextThreads ==
    \/ \E t \in Threads : Make(t, MaxThreadsHandles)
    \/ \E t \in Threads : Destroy(t)
    \/ \E t \in Threads : Allocate(t, MaxThreadsAllocs)

SpecThreads == Init /\ [][NextThreads]_vars

\* ------------------------------------------------------------- properties
Tracks == {allocs[i] : i \in 1 .. Len(allocs)}

AllocAddress(a) == Address(a.thr, a.blk, a.off)

\* the byte ranges [a, a + size_a) and [b, b + size_b) share a byte
Overlap(a, b) ==
    /\ a.size > 0
    /\ b.size > 0
    /\ AllocAddress(a) < AllocAddress(b) + b.size
    /\ AllocAddress(b) < AllocAddress(a) + a.size

\* with the frontier at marker m, some byte of allocation a is beyond it
PastMarker(a, m) ==
    m.block < a.blk \/ (m.block = a.blk /\ m.cursor < a.off + a.size)

\* allocation a is intact: not rolled back, not handed out again
Intact(i) ==
    /\ ~PastMarker(allocs[i], top(allocs[i].thr))
    /\ \A j \in (i + 1) .. Len(allocs) : ~Overlap(allocs[i], allocs[j])

\* the step destroys handle h
Destroys(h) == Live(h) /\ handles'[h].state = "dead"

\* C1 Scope reclamation: when a handle that still holds the marker it
\* captured at construction is destroyed, whatever was allocated through it
\* (block switches and growth included), the arena's frontier is again the
\* frontier captured at its construction.
C1_ScopeReclamation ==
    [][\A h \in 1 .. Len(handles) : \A t \in Threads :
          (Destroys(h) /\ handles[h].thr = t /\ handles[h].unwind_ /\ handles[h].cap = h)
              => top(t)' = handles[h].born]_vars

\* a handle has just been destroyed in an arena that had grown, and the
\* frontier is back in the first block
C1_Witness ==
    /\ last = "destroy"
    /\ Len(blocks[MainThread]) > 1
    /\ top(MainThread) = Marker(1, 0)
    /\ \A h \in 1 .. Len(handles) : ~Live(h)

C4_LifoNesting ==
    \A i \in 1 .. Len(allocs) : \A j \in (i + 1) .. Len(allocs) :
        (/\ ~lifoBroken
         /\ allocs[i].inner
         /\ Live(allocs[i].h)
         /\ handles[allocs[i].h].unwind_
         /\ handles[allocs[i].h].cap = allocs[i].h
         /\ allocs[j].h > allocs[i].seen)
            => ~Overlap(allocs[i], allocs[j])

\* H1 holds an allocation, H2 was created and destroyed, and H3 holds an
\* allocation that starts where H1's ends
C4_Witness ==
    \E i \in 1 .. Len(allocs) : \E j \in (i + 1) .. Len(allocs) :
        /\ ~lifoBroken
        /\ allocs[i].inner
        /\ Live(allocs[i].h)
        /\ allocs[i].size > 0
        /\ allocs[j].size > 0
        /\ Live(allocs[j].h)
        /\ \E k \in (allocs[i].h + 1) .. (allocs[j].h - 1) :
              k > allocs[i].seen /\ handles[k].state = "dead"
        /\ allocs[j].blk = allocs[i].blk
        /\ allocs[j].off = allocs[i].off + allocs[i].size

\* the address the call of this step returned
Returned(t) == Address(t, ret'.blk, ret'.off)

\* C5 Alignment: every successful allocation, made directly or through
\* allocate_node or allocate_array, returns an address that is a multiple of
\* the requested alignment.
C5_Alignment ==
    [][ret'.status = "ok" =>
          \A h \in LiveHandles(MainThread) : \A alignment \in Alignments :
              (\/ /\ last' = "allocate"
                  /\ \E size \in Sizes : allocate(h, size, alignment)
               \/ /\ last' = "allocate_node"
                  /\ \E size \in Sizes : allocate_node(h, size, alignment)
               \/ /\ last' = "allocate_array"
                  /\ \E count \in Counts : \E size \in ElemSizes :
                        allocate_array(h, count, size, alignment))
                  => Returned(MainThread) % alignment = 0]_vars

\* an allocation was returned at an aligned address after skipping padding
C5_Witness ==
    /\ ret.status = "ok"
    /\ ret.off > 0
    /\ \E alignment \in Alignments \ {1} :
          Address(MainThread, ret.blk, ret.off) % alignment = 0
    /\ \E a \in Tracks :
          /\ a.blk = ret.blk
          /\ a.off + a.size < ret.off
          /\ \A b \in Tracks : b.blk = a.blk => (b.off <= a.off \/ b.off = ret.off)

\* C6 Move transfer: destroying a handle that was moved from rolls nothing
\* back; destroying the handle that holds a moved marker rolls the arena
\* back to the frontier at which that marker was captured, and it is the
\* one rollback to it: none happened before, no other handle owns it.
C6_MoveTransfer ==
    [][\A h \in 1 .. Len(handles) : Destroys(h) =>
          /\ ~handles[h].unwind_ => UNCHANGED <<blocks, cur, pending>>
          /\ (handles[h].unwind_ /\ handles[h].cap # h) =>
                /\ top(MainThread)' = handles[h].born
                /\ handles[h].cap \in pending
                /\ pending' = pending \ {handles[h].cap}
                /\ \A k \in LiveHandles(MainThread) \ {h} :
                      ~(handles[k].unwind_ /\ handles[k].cap = handles[h].cap)]_vars

\* the arena had grown, the handle that received the marker by a move has
\* just been destroyed and the frontier is back at the captured marker; the
\* moved-from handle is still alive
C6_Witness ==
    /\ last = "destroy"
    /\ Len(blocks[MainThread]) > 1
    /\ top(MainThread) = Marker(1, 0)
    /\ pending = {}
    /\ \E h \in LiveHandles(MainThread) : ~handles[h].unwind_

\* C7 Single rollback owner: every marker captured by the factory and not
\* yet rolled back to is held, with unwind_ set, by exactly one live handle.
C7_SingleRollbackOwner ==
    \A c \in pending :
        Cardinality({h \in 1 .. Len(handles) :
                        Live(h) /\ handles[h].unwind_ /\ handles[h].cap = c}) = 1

\* C8 allocate_array overflow: when count * size does not fit std::size_t,
\* allocate_array reports InvalidArgument and allocates nothing.
C8_ArrayOverflowChecked ==
    [][\A h \in LiveHandles(MainThread) : \A count \in Counts :
       \A size \in ElemSizes : \A alignment \in Alignments :
          (/\ last' = "allocate_array"
           /\ count * size >= SizeMod
           /\ allocate_array(h, count, size, alignment))
              => (ret'.status = "InvalidArgument" /\ UNCHANGED <<blocks, cur, allocs>>)]_vars

\* the step is a request for size bytes at a valid alignment through handle
\* h that reached the arena: a call of allocate, or a call of allocate_node
\* that did not end the program
Allocates(h, size, alignment) ==
    /\ ret'.status # "none"
    /\ Live(h)
    /\ IsPowerOfTwo(alignment)
    /\ \/ last' = "allocate" /\ allocate(h, size, alignment)
       \/ last' = "allocate_node" /\ allocate_node(h, size, alignment)

\* the call was served from the current block: no switch, no new block
ServedFromCurrent(t) ==
    /\ ret'.status = "ok"
    /\ cur'[t] = cur[t]
    /\ Len(blocks'[t]) = Len(blocks[t])
    /\ ret'.blk = cur[t]

PaddingAtCursor(t, alignment) ==
    align_offset(Address(t, cur[t], blocks[t][cur[t]].cursor), alignment)

C10_Growth ==
    [][\A h \in LiveHandles(MainThread) : \A size \in Sizes : \A alignment \in Alignments :
          LET t == MainThread
              c == cur[t]
              bs == blocks[t]
          IN  (/\ size <= GrowthCeiling
               /\ CanAcquire(t)
               /\ ~HasRoom(t, c, bs[c], size, alignment)
               /\ ~(c < Len(bs) /\ HasRoom(t, c + 1, bs[c + 1], size, alignment))
               /\ Allocates(h, size, alignment))
                  => /\ ret'.status = "ok"
                     /\ Len(blocks'[t]) = Len(bs) + 1
                     /\ cur'[t] = Len(bs) + 1
                     /\ blocks'[t][Len(bs) + 1].capacity >=
                            Max(size, bs[c].capacity * GrowthFactor)
                     /\ ret'.blk = Len(bs) + 1
                     /\ ret'.off + size <= blocks'[t][Len(bs) + 1].capacity
                     /\ blocks'[t][Len(bs) + 1].cursor = ret'.off + size]_vars

\* the arena has just grown by a block sized by the request, not by the
\* growth factor, and the allocation fills it
C10_Witness ==
    /\ ret.status = "ok"
    /\ cur[MainThread] = Len(blocks[MainThread])
    /\ cur[MainThread] > 1
    /\ ret.blk = cur[MainThread]
    /\ blocks[MainThread][cur[MainThread]].capacity = GrowthCeiling
    /\ blocks[MainThread][cur[MainThread]].capacity >
           blocks[MainThread][cur[MainThread] - 1].capacity * GrowthFactor
    /\ capacity_remaining(MainThread) = 0

\* neither the current block nor the block after it has room for the request
FitsNowhere(t, size, alignment) ==
    /\ ~HasRoom(t, cur[t], blocks[t][cur[t]], size, alignment)
    /\ ~(cur[t] < Len(blocks[t])
            /\ HasRoom(t, cur[t] + 1, blocks[t][cur[t] + 1], size, alignment))

CallsWithAlignment(h, alignment) ==
    /\ ret'.status # "none"
    /\ \/ /\ last' = "allocate"
          /\ \E size \in Sizes : allocate(h, size, alignment)
       \/ /\ last' = "allocate_node"
          /\ \E size \in Sizes : allocate_node(h, size, alignment)
       \/ /\ last' = "allocate_array"
          /\ \E count \in Counts : \E size \in ElemSizes :
                allocate_array(h, count, size, alignment)

\* C12 Invalid alignment: a request whose alignment is not a power of two,
\* made directly or through allocate_node or allocate_array, fails with
\* InvalidArgument and leaves the block chain, the current block, every
\* cursor and the set of allocations as they were.
C12_InvalidAlignment ==
    [][\A h \in LiveHandles(MainThread) : \A alignment \in Alignments :
          (~IsPowerOfTwo(alignment) /\ CallsWithAlignment(h, alignment))
              => (ret'.status = "InvalidArgument" /\ UNCHANGED <<blocks, cur, allocs>>)]_vars

\* allocate_array has just been refused for its alignment in an arena that
\* holds an allocation
C12_Witness ==
    /\ ret.status = "InvalidArgument"
    /\ last = "allocate_array"
    /\ blocks[MainThread][cur[MainThread]].cursor > 0
    /\ allocs # <<>>

\* the step gives memory back: some cursor moves down or the current block
\* moves towards the start of the chain
Reclaims(t) ==
    \/ cur'[t] < cur[t]
    \/ \E i \in 1 .. Len(blocks[t]) : blocks'[t][i].cursor < blocks[t][i].cursor

\* C13 Deallocation is a no-op: a call of deallocate_node or deallocate_array
\* leaves the block chain, the current block, every cursor, every handle's
\* marker and ownership flag and max_node_size unchanged; only the
\* destruction of a handle gives memory back.
C13_DeallocateNoOp ==
    [][/\ last' = "deallocate" =>
             /\ UNCHANGED <<blocks, cur, handles>>
             /\ \A h \in LiveHandles(MainThread) : max_node_size(h)' = max_node_size(h)
       /\ Reclaims(MainThread) => last' = "destroy"]_vars

\* deallocate has just been called on an allocation whose bytes are still
\* below the cursor
C13_Witness ==
    /\ last = "deallocate"
    /\ \E a \in Tracks :
          /\ a.size > 0
          /\ a.blk = cur[MainThread]
          /\ blocks[MainThread][a.blk].cursor = a.off + a.size

\* handle h owns a rollback while a marker captured after its own is still
\* owned by another live handle
OutOfOrder(h) ==
    /\ handles[h].unwind_
    /\ \E k \in LiveHandles(handles[h].thr) :
          k # h /\ handles[k].unwind_ /\ handles[k].cap > handles[h].cap

\* handle h owns a rollback to a marker that lies past the arena's frontier
Stale(h) ==
    /\ handles[h].unwind_
    /\ ~MarkerLE(handles[h].marker_, top(handles[h].thr))

AtFrontier(t, m, r, alignment) ==
    IF HasRoom(t, m.block, [blocks[t][m.block] EXCEPT !.cursor = m.cursor],
               r.size, alignment)
      THEN /\ r.blk = m.block
           /\ r.off = m.cursor + align_offset(Address(t, m.block, m.cursor), alignment)
      ELSE /\ r.blk = m.block + 1
           /\ r.off = align_offset(Address(t, r.blk, 0), alignment)

\* a handle that made allocations from the frontier it captured was
\* destroyed and a new handle has just been created
Reuses == reclaimed # NoReclaim /\ last = "make" /\ last' = "allocate"

\* the call of this step returned the address of the reclaimed allocation
SameAddress ==
    /\ ret'.status = "ok"
    /\ ret'.blk = reclaimed.blk
    /\ ret'.off = reclaimed.off

BlocksRetained ==
    \A t \in Threads :
        /\ Len(blocks'[t]) >= Len(blocks[t])
        /\ \A i \in 1 .. Len(blocks[t]) :
              blocks'[t][i].capacity = blocks[t][i].capacity

\* a request of r.size bytes at this alignment, made with the frontier at
\* marker m, is served at r: in m's block if it has room, else at the start
\* of some later block
ServedAfter(t, m, r, alignment) ==
    IF HasRoom(t, m.block, [blocks[t][m.block] EXCEPT !.cursor = m.cursor],
               r.size, alignment)
      THEN /\ r.blk = m.block
           /\ r.off = m.cursor + align_offset(Address(t, m.block, m.cursor), alignment)
      ELSE /\ r.blk > m.block
           /\ r.off = align_offset(Address(t, r.blk, 0), alignment)

\* the call of this step was served without acquiring a block
NoNewBlock ==
    /\ ret'.status = "ok"
    /\ Len(blocks'[MainThread]) = Len(blocks[MainThread])

C17_CursorBound ==
    \A t \in Threads :
        /\ \A i \in 1 .. Len(blocks[t]) :
              /\ 0 <= blocks[t][i].cursor
              /\ blocks[t][i].cursor <= blocks[t][i].capacity
        /\ Cardinality({i \in 1 .. Len(blocks[t]) : i = cur[t]}) = 1

\* a handle was moved, an allocation through the new owner filled a grown
\* block to its capacity, and a handle has been destroyed since
C17_Witness ==
    /\ last = "destroy"
    /\ cur[MainThread] > 1
    /\ blocks[MainThread][cur[MainThread]].cursor
          = blocks[MainThread][cur[MainThread]].capacity
    /\ \E h \in LiveHandles(MainThread) : handles[h].cap # h
    /\ \E a \in Tracks : a.blk = cur[MainThread] /\ handles[a.h].cap # a.h

\* the arena of thread t, as a step can change it
Arena(t) == <<blocks[t], cur[t]>>

\* C18 Thread isolation: with two or more threads running in any
\* interleaving, a handle is bound to the arena of the thread that created
\* it, a step by one thread never changes the arena of another thread, and
\* allocations of different threads never overlap.
C18_ThreadIsolation ==
    [][/\ \A t \in Threads : t # actor' => Arena(t)' = Arena(t)
       /\ last' = "make" =>
             /\ handles'[Len(handles')].thr = actor'
             /\ handles'[Len(handles')].marker_ = top(actor')
       /\ \A i, j \in 1 .. Len(allocs') :
             allocs'[i].thr # allocs'[j].thr => ~Overlap(allocs'[i], allocs'[j])]_vars

\* both threads hold an allocation, of different sizes, at the same position
\* of their own arena, in a block their arena grew by, and the second thread
\* acted last
C18_Witness ==
    /\ actor # MainThread
    /\ last = "allocate"
    /\ \E a, b \in Tracks :
          /\ a.thr = MainThread
          /\ b.thr = actor
          /\ a.live /\ b.live
          /\ a.size > 0 /\ b.size > 0
          /\ a.blk = b.blk /\ a.off = b.off
          /\ a.blk > 1
          /\ a.size # b.size

\* the address p lies inside the byte range of allocation a
Inside(p, a) == AllocAddress(a) <= p /\ p < AllocAddress(a) + a.size

C20_FailedAllocationUnchanged ==
    [][(ret'.status = "OutOfMemory"
          /\ last' \in {"allocate", "allocate_node", "allocate_array"}) =>
              /\ UNCHANGED <<blocks, cur, handles, allocs>>
              /\ \A t \in Threads : top(t)' = top(t)
              /\ \A h \in 1 .. Len(handles) :
                    /\ handles'[h].marker_ = handles[h].marker_
                    /\ handles'[h].unwind_ = handles[h].unwind_]_vars

\* a call through allocate_node has just failed with OutOfMemory in an arena
\* whose current block is partly used by a live allocation of a live handle
C20_Witness ==
    /\ ret.status = "OutOfMemory"
    /\ last = "allocate_node"
    /\ ~aborted
    /\ blocks[MainThread][cur[MainThread]].cursor > 0
    /\ \E a \in Tracks :
          /\ a.live
          /\ Live(a.h)
          /\ handles[a.h].unwind_
          /\ a.blk = cur[MainThread]
          /\ a.size > 0

TypeOK ==
    /\ \A t \in Threads : cur[t] \in 1 .. Len(blocks[t])
    /\ Len(handles) <= Max(MaxHandles, Max(MaxTraitsHandles, MaxThreadsHandles))
    /\ Len(allocs) <= Max(Max(MaxAllocs, MaxTraitsAllocs), Max(MaxMoveAllocs, MaxThreadsAllocs))

====
